---- MODULE Spec2Model ----
(***************************************************************************)
(* Verification model of the Discord gateway lifecycle controller          *)
(* (src/discord/monitor/provider.lifecycle.ts: runDiscordGatewayLifecycle, *)
(* its HELLO stall watchdog, its early-error drain and its teardown) and   *)
(* of the ordered message dispatcher exercised by                          *)
(* src/discord/monitor/listeners.test.ts.                                  *)
(*                                                                         *)
(* One step of the model is one run-to-completion task of the JavaScript   *)
(* event loop: the synchronous code from one suspension point (await,      *)
(* timer callback, emitter event, abort event) to the next, promise        *)
(* continuations included.                                                 *)
(***************************************************************************)
EXTENDS Integers, Sequences, FiniteSets, TLC

----------------------------------------------------------------------------
\* Bounds of the model (not program constants).

\* longest pre-captured error queue handed to a run
MaxPending == 2
\* live errors that do not stop the wait, per run
MaxLiveErrors == 1
\* HELLO deadline callbacks that fire in one run of the watchdog study
MaxTimeouts == 4
\* HELLO deadline callbacks that fire in one run of the lifecycle study
MaxRunTimeouts == 1
\* events passed to one dispatcher
MaxEvents == 3
\* timer handles the scheduler can hand out at the same time
MaxTimers == 2
\* errors the caller's guard captures after the run has begun
MaxLateErrors == 1
\* lifecycle runs that overlap in one process
MaxRuns == 3
\* bootstrap files a workspace holds for a session
MaxFiles == 2
\* bootstrap files the hook overrides add or put in place of the list
MaxHookFiles == 1

\* Program constant: stalls in a row that force a fresh identify.
MAX_CONSECUTIVE_HELLO_STALLS == 3

----------------------------------------------------------------------------
\* Text.  A message is the sequence of its words; String.prototype.includes
\* is a search for a contiguous run of words.

Includes(message, needle) ==
    \E i \in 0..(Len(message) - Len(needle)) :
        \A j \in 1..Len(needle) : message[i + j] = needle[j]

MsgFatal4014 == <<"Fatal", "Gateway", "error:", "4014">>
MsgFatal4000 == <<"Fatal", "Gateway", "error:", "4000">>
MsgMaxReconnect == <<"Max", "reconnect", "attempts", "reached">>
MsgClose4014 == <<"closed", "with", "code", "4014">>
MsgTransient == <<"socket", "hang", "up">>

\* messages of the errors a gateway emits
GatewayErrorMessages ==
    {MsgFatal4014, MsgFatal4000, MsgMaxReconnect, MsgClose4014, MsgTransient}

MsgOpened == <<"WebSocket", "connection", "opened">>
MsgClosed == <<"WebSocket", "connection", "closed", "with", "code", "1006">>
MsgHeartbeat == <<"Heartbeat", "ACK">>

\* debug lines the gateway emitter delivers
DebugMessages == {MsgOpened, MsgClosed, MsgHeartbeat}

\* An error value: its identity and the words of String(err).
NoError == [id |-> 0, msg |-> <<>>]
ErrStartup == [id |-> 201, msg |-> <<"startup", "failed">>]
ErrDestroy == [id |-> 202, msg |-> <<"voice", "destroy", "failed">>]
ErrStop == [id |-> 203, msg |-> <<"approvals", "stop", "failed">>]
ErrSetup == [id |-> 204, msg |-> <<"setup", "failed">>]

\* The errors of a queue, identified by their place in it.
RECURSIVE QueueOf(_, _)
QueueOf(msgs, from) ==
    IF msgs = <<>> THEN <<>>
    ELSE <<[id |-> from, msg |-> Head(msgs)]>> \o QueueOf(Tail(msgs), from + 1)

SeqsUpTo(S, n) == UNION {[1..k -> S] : k \in 0..n}

AccountId == "default"
Resolved == [kind |-> "resolved", err |-> NoError]
Rejected(err) == [kind |-> "rejected", err |-> err]
Running == [kind |-> "running", err |-> NoError]

----------------------------------------------------------------------------
VARIABLES
    cfg,                    \* params of the run: which collaborators exist
    pendingGatewayErrors,   \* params.pendingGatewayErrors (caller-owned queue)
    captured,               \* history: every error the caller ever queued
    pc,                     \* suspension point of runDiscordGatewayLifecycle
    thrown,                 \* error the finally block will rethrow, or NoError
    outcome,                \* what the caller of the run has observed
    sawDisallowedIntents,
    queuedErrors,           \* the drain's snapshot of the queue (line 178)
    caught,                 \* the error the catch clause received, or NoError
    errorLog,               \* lines written to runtime.error
    waitCalls,              \* calls of waitForDiscordGatewayStop
    startCalls,             \* calls of execApprovalsHandler.start
    liveErrors,             \* live errors seen by the wait so far
    hooks,                  \* teardown calls made so far, in order
    registry,               \* gateway-registry: identities with a handle
    guardActive,            \* early-error guard not yet released
    loggingAttached,        \* attachDiscordGatewayLogging in effect
    abortListener,          \* onAbort registered on the signal
    aborted,                \* abortSignal.aborted
    debugListener,          \* onGatewayDebug registered on the emitter
    voiceManagerRef,        \* voiceManagerRef.current is non-null
    gw,                     \* the gateway handle's fields
    calls,                  \* connect / disconnect calls made on the handle
    helloTimeoutId,         \* 0 is undefined
    helloConnectedPollId,   \* 0 is undefined
    liveTimeouts,           \* deadline timers the scheduler still holds
    livePolls,              \* interval timers the scheduler still holds
    sawConnected,           \* per watch cycle: the closure's sawConnected
    consecutiveHelloStalls,
    timeoutsFired,          \* deadline callbacks run so far
    timeoutBudget,          \* deadline callbacks the model lets a run see
    stallsSinceClose,       \* history: stalls counted since the last close of
                            \* a connection that was connected
    deadlineAfterDrop,      \* history: a deadline has fired for a cycle that
                            \* saw isConnected, with isConnected false again
    dCalls,                 \* dispatcher: events passed to handle(), in order
    dResolved,              \* dispatcher: handle() promises resolved so far
    dStarted,               \* dispatcher: events whose handler body has begun
    dSettled,               \* dispatcher: handler bodies settled, in order
    dRunning,               \* dispatcher: the event in flight, 0 when none
    dErrorLog,              \* dispatcher: lines written to logger.error
    runs,                   \* several runs: phase, identity and handle of each
    gatewayRegistry,        \* several runs: identity -> run whose handle the
                            \* registry holds, 0 when it holds none
    bPc,                    \* bootstrap: position in resolveBootstrapFilesForRun
    bParams,                \* bootstrap: params.contextMode and params.runKind
    bFiles,                 \* bootstrap: the files of the session (line 81)
    bFiltered,              \* bootstrap: bootstrapFiles (line 80)
    bUpdated,               \* bootstrap: updated (line 86)
    bResult,                \* bootstrap: the files returned (line 94)
    bWarned                 \* bootstrap: calls of params.warn

vars ==
    <<cfg, pendingGatewayErrors, captured, pc, thrown, outcome, sawDisallowedIntents,
      queuedErrors, caught, errorLog, waitCalls, startCalls, liveErrors, hooks, registry,
      guardActive, loggingAttached, abortListener, aborted, debugListener,
      voiceManagerRef, gw, calls, helloTimeoutId, helloConnectedPollId,
      liveTimeouts, livePolls, sawConnected, consecutiveHelloStalls,
      timeoutsFired, timeoutBudget, stallsSinceClose, deadlineAfterDrop,
      dCalls, dResolved, dStarted, dSettled,
      dRunning, dErrorLog, runs, gatewayRegistry, bPc, bParams, bFiles, bFiltered,
      bUpdated, bResult, bWarned>>

TimerIds == 1..MaxTimers

dispVars ==
    <<dCalls, dResolved, dStarted, dSettled, dRunning, dErrorLog>>

\* The registry shared by several runs.
regVars ==
    <<runs, gatewayRegistry>>

\* State of the models that stand beside the single run.
\* resolveBootstrapFilesForRun.
bootVars ==
    <<bPc, bParams, bFiles, bFiltered, bUpdated, bResult, bWarned>>

sideVars ==
    <<regVars, bootVars>>

\* The state the run's code reads and writes, as one record.
Cur ==
    [pc |-> pc, thrown |-> thrown, outcome |-> outcome,
     saw |-> sawDisallowedIntents, queuedErrors |-> queuedErrors,
     caught |-> caught, errorLog |-> errorLog,
     waitCalls |-> waitCalls, startCalls |-> startCalls, hooks |-> hooks,
     pending |-> pendingGatewayErrors, registry |-> registry,
     guardActive |-> guardActive, loggingAttached |-> loggingAttached,
     abortListener |-> abortListener, aborted |-> aborted,
     debugListener |-> debugListener, voiceRef |-> voiceManagerRef,
     gw |-> gw, calls |-> calls,
     helloTimeoutId |-> helloTimeoutId,
     helloConnectedPollId |-> helloConnectedPollId,
     liveTimeouts |-> liveTimeouts, livePolls |-> livePolls]

Commit(r) ==
    /\ pc' = r.pc
    /\ thrown' = r.thrown
    /\ outcome' = r.outcome
    /\ sawDisallowedIntents' = r.saw
    /\ queuedErrors' = r.queuedErrors
    /\ caught' = r.caught
    /\ errorLog' = r.errorLog
    /\ waitCalls' = r.waitCalls
    /\ startCalls' = r.startCalls
    /\ hooks' = r.hooks
    /\ pendingGatewayErrors' = r.pending
    /\ registry' = r.registry
    /\ guardActive' = r.guardActive
    /\ loggingAttached' = r.loggingAttached
    /\ abortListener' = r.abortListener
    /\ aborted' = r.aborted
    /\ debugListener' = r.debugListener
    /\ voiceManagerRef' = r.voiceRef
    /\ gw' = r.gw
    /\ calls' = r.calls
    /\ helloTimeoutId' = r.helloTimeoutId
    /\ helloConnectedPollId' = r.helloConnectedPollId
    /\ liveTimeouts' = r.liveTimeouts
    /\ livePolls' = r.livePolls

----------------------------------------------------------------------------
\* Error classification (provider.lifecycle.ts 150-169).

\* params.isDisallowedIntentsError: the caller's predicate, the one of
\* provider.lifecycle.test.ts line 187 (close code 4014).
IsDisallowedIntentsError(err) ==
    Includes(err.msg, <<"4014">>)

ShouldStopOnGatewayError(err) ==
    \/ Includes(err.msg, <<"Max", "reconnect", "attempts">>)
    \/ Includes(err.msg, <<"Fatal", "Gateway", "error:">>)
    \/ IsDisallowedIntentsError(err)

\* logGatewayError: the line written to runtime.error for err.
LogLine(err) ==
    IF IsDisallowedIntentsError(err)
    THEN [line |-> "missing privileged gateway intents", text |-> <<>>,
          err |-> err.id]
    ELSE [line |-> "discord gateway error", text |-> err.msg, err |-> err.id]

LogGatewayError(r, err) ==
    [r EXCEPT !.errorLog = Append(@, LogLine(err)),
              !.saw = @ \/ IsDisallowedIntentsError(err)]

----------------------------------------------------------------------------
\* Variant: the poll's id is forgotten and its interval left running.
ClearHelloWatchForgetsPoll(r) ==
    [r EXCEPT !.liveTimeouts = @ \ {r.helloTimeoutId},
              !.helloTimeoutId = 0,
              !.helloConnectedPollId = 0]

\* clearHelloWatch (provider.lifecycle.ts 59-68).
ClearHelloWatch(r) ==
    [r EXCEPT !.liveTimeouts = @ \ {r.helloTimeoutId},
              !.helloTimeoutId = 0,
              !.livePolls = @ \ {r.helloConnectedPollId},
              !.helloConnectedPollId = 0]

\* Variant: the handle is disconnected while it may still reconnect.
OnAbortDisconnectsFirst(r) ==
    IF ~cfg.gateway THEN r
    ELSE [r EXCEPT !.gw.maxAttempts = 0,
                   !.calls = Append(@, [op |-> "disconnect", by |-> "abort",
                                        resume |-> FALSE,
                                        maxAttempts |-> r.gw.maxAttempts,
                                        state |-> r.gw.state,
                                        sequence |-> r.gw.sequence])]

\* Variant: the listener stays on the signal after it has run.
ListenerKeptAfterAbort(r) ==
    r

\* Line 50, { once: true }: the listener is gone once it has run.
ListenerAfterAbort(r) ==
    [r EXCEPT !.abortListener = FALSE]

\* onAbort (provider.lifecycle.ts 38-45).
OnAbort(r) ==
    IF ~cfg.gateway THEN r
    ELSE [r EXCEPT !.gw.maxAttempts = 0,
                   !.calls = Append(@, [op |-> "disconnect", by |-> "abort",
                                        resume |-> FALSE,
                                        maxAttempts |-> 0,
                                        state |-> r.gw.state,
                                        sequence |-> r.gw.sequence])]

----------------------------------------------------------------------------
\* Teardown: the finally block (provider.lifecycle.ts 207-222).

\* The calls of the finally block up to its first await, in order.
TeardownSyncHooks ==
    (IF cfg.guard THEN <<"releaseEarlyGatewayErrorGuard">> ELSE <<>>)
    \o <<"unregisterGateway", "stopGatewayLogging", "clearHelloWatch",
         "removeDebugListener", "removeAbortListener">>

\* The run's promise settles: a pending error rejects it.
Settle(r) ==
    [r EXCEPT !.pc = "done",
              !.outcome = IF r.thrown = NoError THEN Resolved
                          ELSE Rejected(r.thrown)]

\* line 221
ThreadBindingsStop(r) ==
    Settle([r EXCEPT !.hooks = Append(@, "threadBindings.stop")])

\* lines 218-220: the call of execApprovalsHandler.stop, then the await
ApprovalsStop(r) ==
    IF cfg.approvals
    THEN [r EXCEPT !.pc = "stopping",
                   !.hooks = Append(@, "execApprovalsHandler.stop")]
    ELSE ThreadBindingsStop(r)

\* lines 214-217: the call of voiceManager.destroy, then the await
VoiceDestroy(r) ==
    IF cfg.voice
    THEN [r EXCEPT !.pc = "destroying",
                   !.hooks = Append(@, "voiceManager.destroy")]
    ELSE ApprovalsStop(r)

\* Variant: the registry entry is left in place.
TeardownSyncKeepsRegistration(r) ==
    LET c == ClearHelloWatch(r)
    IN  [c EXCEPT !.hooks = @ \o TeardownSyncHooks,
                  !.guardActive = FALSE,
                  !.loggingAttached = FALSE,
                  !.debugListener = FALSE,
                  !.abortListener = FALSE]

\* Variant: the watchdog's listener and timers are left in place.
TeardownSyncKeepsWatchdog(r) ==
    [r EXCEPT !.hooks = @ \o TeardownSyncHooks,
              !.guardActive = FALSE,
              !.registry = @ \ {AccountId},
              !.loggingAttached = FALSE,
              !.abortListener = FALSE]

\* lines 208-213
TeardownSync(r) ==
    LET c == ClearHelloWatch(r)
    IN  [c EXCEPT !.hooks = @ \o TeardownSyncHooks,
                  !.guardActive = FALSE,
                  !.registry = @ \ {AccountId},
                  !.loggingAttached = FALSE,
                  !.debugListener = FALSE,
                  !.abortListener = FALSE]

\* The finally block entered with completion err (NoError: normal).
Finally(r, err) ==
    VoiceDestroy(TeardownSync([r EXCEPT !.thrown = err]))

\* Variant: the catch clause rethrows whatever it receives.
CatchRethrowsAlways(r, err) ==
    TRUE

\* The catch clause (lines 203-206).
CatchRethrows(r, err) ==
    ~r.saw /\ ~IsDisallowedIntentsError(err)

Catch(r, err) ==
    LET r1 == [r EXCEPT !.caught = err]
    IN  IF CatchRethrows(r, err) THEN Finally(r1, err) ELSE Finally(r1, NoError)

----------------------------------------------------------------------------
\* The body of the try block after the approvals start (lines 175-202).

\* Variant: the loop is left after the first error that does not stop the run.
DrainLoopBreaks(r, snapshot) ==
    IF snapshot = <<>> THEN [verdict |-> "continue", err |-> NoError, r |-> r]
    ELSE LET err == Head(snapshot)
             r1 == LogGatewayError(r, err)
         IN  IF ~ShouldStopOnGatewayError(err)
             THEN [verdict |-> "continue", err |-> NoError, r |-> r1]
             ELSE IF IsDisallowedIntentsError(err)
                  THEN [verdict |-> "return", err |-> err, r |-> r1]
                  ELSE [verdict |-> "throw", err |-> err, r |-> r1]

\* Variant: the errors after the one that stops the run are logged too.
RECURSIVE LogEach(_, _)
LogEach(r, errs) ==
    IF errs = <<>> THEN r ELSE LogEach(LogGatewayError(r, Head(errs)), Tail(errs))

RECURSIVE DrainLoopLogsRest(_, _)
DrainLoopLogsRest(r, snapshot) ==
    IF snapshot = <<>> THEN [verdict |-> "continue", err |-> NoError, r |-> r]
    ELSE LET err == Head(snapshot)
             r1 == LogGatewayError(r, err)
         IN  IF ~ShouldStopOnGatewayError(err)
             THEN DrainLoopLogsRest(r1, Tail(snapshot))
             ELSE IF IsDisallowedIntentsError(err)
                  THEN [verdict |-> "return", err |-> err,
                        r |-> LogEach(r1, Tail(snapshot))]
                  ELSE [verdict |-> "throw", err |-> err,
                        r |-> LogEach(r1, Tail(snapshot))]

\* Lines 180-189: the loop over the snapshot.  verdict is how it ends.
RECURSIVE DrainLoop(_, _)
DrainLoop(r, snapshot) ==
    IF snapshot = <<>> THEN [verdict |-> "continue", err |-> NoError, r |-> r]
    ELSE LET err == Head(snapshot)
             r1 == LogGatewayError(r, err)
         IN  IF ~ShouldStopOnGatewayError(err)
             THEN DrainLoop(r1, Tail(snapshot))
             ELSE IF IsDisallowedIntentsError(err)
                  THEN [verdict |-> "return", err |-> err, r |-> r1]
                  ELSE [verdict |-> "throw", err |-> err, r |-> r1]

\* Variant: the caller's queue is left as it was.
DrainPendingKeepsQueue(r) ==
    DrainLoop([r EXCEPT !.queuedErrors = r.pending], r.pending)

\* Lines 176-179: snapshot the caller's queue and empty it, then loop.
DrainPending(r) ==
    DrainLoop([r EXCEPT !.pending = <<>>, !.queuedErrors = r.pending],
              r.pending)

\* waitForDiscordGatewayStop is called (lines 192-202); it resolves at once
\* when the signal is already aborted.
WaitCall(r) ==
    LET r1 == [r EXCEPT !.waitCalls = @ + 1]
    IN  IF cfg.signal /= "none" /\ r.aborted
        THEN Finally(r1, NoError)
        ELSE [r1 EXCEPT !.pc = "waiting"]

\* Variant: the wait is called whatever the drain decided.
BodyIgnoresVerdict(r) ==
    WaitCall(DrainPending(r).r)

Body(r) ==
    LET d == DrainPending(r)
    IN  CASE d.verdict = "return" -> Finally(d.r, NoError)
          [] d.verdict = "throw" -> Catch(d.r, d.err)
          [] OTHER -> WaitCall(d.r)

\* Lines 171-173.
TryBlock(r) ==
    IF cfg.approvals
    THEN [r EXCEPT !.pc = "starting", !.startCalls = @ + 1]
    ELSE Body(r)

\* Lines 28-51 and 147: registration and wiring, before the try block.
Register(r) ==
    LET r1 == [r EXCEPT !.registry = IF cfg.gateway THEN @ \cup {AccountId} ELSE @,
                        !.loggingAttached = TRUE]
        r2 == IF cfg.signal /= "none" /\ r.aborted THEN OnAbort(r1)
              ELSE [r1 EXCEPT !.abortListener = (cfg.signal /= "none")]
    IN  [r2 EXCEPT !.debugListener = cfg.gateway]

----------------------------------------------------------------------------
\* Actions of the run.

wdVars ==
    <<sawConnected, consecutiveHelloStalls, timeoutsFired, timeoutBudget,
      stallsSinceClose, deadlineAfterDrop>>

\* How the wiring before the try block (lines 28-51, 147) ends: it completes,
\* or attachDiscordGatewayLogging (line 33) throws, or gateway.disconnect()
\* throws inside the onAbort() of line 48.
SetupOutcomes == {"ok", "loggingThrows", "disconnectThrows"}

\* A throw before the try block leaves the function at once: neither the
\* catch clause nor the finally block runs.
SetupThrows(r, step) ==
    LET r1 == [r EXCEPT !.registry = IF cfg.gateway THEN @ \cup {AccountId} ELSE @]
        r2 == IF step = "loggingThrows" THEN r1
              ELSE OnAbort([r1 EXCEPT !.loggingAttached = TRUE])
    IN  Settle([r2 EXCEPT !.thrown = ErrSetup])

\* runDiscordGatewayLifecycle is called: lines 28-172 (and on, when there is
\* no approvals handler to await).
Begin(setup) ==
    /\ pc = "init"
    /\ setup = "disconnectThrows" => (cfg.gateway /\ cfg.signal /= "none" /\ aborted)
    /\ Commit(IF setup = "ok" THEN TryBlock(Register(Cur))
              ELSE SetupThrows(Cur, setup))
    /\ UNCHANGED <<cfg, captured, liveErrors, wdVars, dispVars, sideVars>>

\* execApprovalsHandler.start() settles.
StartSettles(ok) ==
    /\ pc = "starting"
    /\ Commit(IF ok THEN Body(Cur) ELSE Catch(Cur, ErrStartup))
    /\ UNCHANGED <<cfg, captured, liveErrors, wdVars, dispVars, sideVars>>

\* The gateway emits an error while the wait listens: the wait passes it to
\* onGatewayError and rejects with it when shouldStopOnError matches.
LiveError(m) ==
    /\ pc = "waiting"
    /\ liveErrors < MaxLiveErrors
    /\ LET err == [id |-> 100 + liveErrors + 1, msg |-> m]
           r1 == LogGatewayError(Cur, err)
       IN  Commit(IF ShouldStopOnGatewayError(err) THEN Catch(r1, err) ELSE r1)
    /\ liveErrors' = liveErrors + 1
    /\ UNCHANGED <<cfg, captured, wdVars, dispVars, sideVars>>

\* The stream stops by itself: the wait resolves.
GatewayStops ==
    /\ pc = "waiting"
    /\ Commit(Finally(Cur, NoError))
    /\ UNCHANGED <<cfg, captured, liveErrors, wdVars, dispVars, sideVars>>

\* The abort signal is triggered, for the first time or again: onAbort runs
\* when it is still registered, and a pending wait resolves.
AbortFires ==
    /\ cfg.signal /= "none"
    /\ LET r0 == [Cur EXCEPT !.aborted = TRUE]
           r1 == IF abortListener
                 THEN ListenerAfterAbort(OnAbort(r0))
                 ELSE r0
       IN  Commit(IF pc = "waiting" THEN Finally(r1, NoError) ELSE r1)
    /\ UNCHANGED <<cfg, captured, liveErrors, wdVars, dispVars, sideVars>>

\* voiceManager.destroy() settles (line 215-216).
DestroySettles(ok) ==
    /\ pc = "destroying"
    /\ Commit(IF ok
              THEN ApprovalsStop(
                       [Cur EXCEPT !.voiceRef = FALSE,
                                   !.hooks = @ \o <<"voiceManager.destroy:resolved",
                                                    "voiceManagerRef.current=null">>])
              ELSE Settle([Cur EXCEPT !.thrown = ErrDestroy,
                                      !.hooks = Append(@, "voiceManager.destroy:rejected")]))
    /\ UNCHANGED <<cfg, captured, liveErrors, wdVars, dispVars, sideVars>>

\* execApprovalsHandler.stop() settles (line 219).
StopSettles(ok) ==
    /\ pc = "stopping"
    /\ Commit(IF ok
              THEN ThreadBindingsStop(
                       [Cur EXCEPT !.hooks = Append(@, "execApprovalsHandler.stop:resolved")])
              ELSE Settle([Cur EXCEPT !.thrown = ErrStop,
                                      !.hooks = Append(@, "execApprovalsHandler.stop:rejected")]))
    /\ UNCHANGED <<cfg, captured, liveErrors, wdVars, dispVars, sideVars>>

\* Errors the caller's guard has queued since the run began.
LateErrors ==
    {i \in DOMAIN captured : captured[i].id > 50}

\* The caller's early-error guard, not yet released, captures an error the
\* gateway emits and appends it to the caller's queue.
GuardCapture(m) ==
    /\ pc /= "init"
    /\ guardActive
    /\ Cardinality(LateErrors) < MaxLateErrors
    /\ LET err == [id |-> 50 + Cardinality(LateErrors) + 1, msg |-> m]
       IN  /\ pendingGatewayErrors' = Append(pendingGatewayErrors, err)
           /\ captured' = Append(captured, err)
    /\ UNCHANGED <<cfg, pc, thrown, outcome, sawDisallowedIntents, queuedErrors,
                   caught, errorLog, waitCalls, startCalls, liveErrors, hooks,
                   registry, guardActive, loggingAttached, abortListener,
                   aborted, debugListener, voiceManagerRef, gw, calls,
                   helloTimeoutId, helloConnectedPollId, liveTimeouts,
                   livePolls, wdVars, dispVars, sideVars>>

----------------------------------------------------------------------------
\* The HELLO stall watchdog (provider.lifecycle.ts 53-147).

\* A nullable field holds Null or Some(v).
Null == <<>>
Some(v) == <<v>>

lifeVars ==
    <<cfg, pendingGatewayErrors, captured, pc, thrown, outcome, sawDisallowedIntents,
      queuedErrors, caught, errorLog, waitCalls, startCalls, liveErrors, hooks, registry,
      guardActive, loggingAttached, abortListener, aborted, debugListener,
      voiceManagerRef>>

\* Variant: the copy of the sequence kept on the handle itself is forgotten.
ClearResumeStateKeepsSequence(g) ==
    [g EXCEPT !.state = [sessionId |-> Null, resumeGatewayUrl |-> Null,
                         sequence |-> Null]]

\* clearResumeState (lines 72-90).
ClearResumeState(g) ==
    [g EXCEPT !.state = [sessionId |-> Null, resumeGatewayUrl |-> Null,
                         sequence |-> Null],
              !.sequence = Null]

\* Variant: a close never resets the counter.
StallsAfterCloseKept(isConnected, stalls) ==
    stalls

\* Lines 96-98: the counter after a "connection closed" line.
StallsAfterClose(isConnected, stalls) ==
    IF isConnected THEN 0 ELSE stalls

\* Variant: the escalation comes one stall early.
ForceFreshIdentifyEarly(stalls) ==
    stalls >= MAX_CONSECUTIVE_HELLO_STALLS - 1

\* Variant: the escalation comes one stall late.
ForceFreshIdentifyLate(stalls) ==
    stalls > MAX_CONSECUTIVE_HELLO_STALLS

\* Line 129.
ForceFreshIdentify(stalls) ==
    stalls >= MAX_CONSECUTIVE_HELLO_STALLS

\* Variant: an opened socket counts as a confirmed handshake.
DeadlineTrustsOpen(c) ==
    TRUE

\* Variant: the poll's confirmation is not consulted.
DeadlineIgnoresPoll(c) ==
    gw.isConnected

\* Line 125: the deadline finds the handshake confirmed.
DeadlineSeesConnected(c) ==
    sawConnected[c] \/ gw.isConnected

\* A call made on the handle, with the handle's fields at that moment.
GatewayCall(op, resume, g) ==
    [op |-> op, by |-> "watchdog", resume |-> resume,
     maxAttempts |-> g.maxAttempts, state |-> g.state, sequence |-> g.sequence]

\* The timer handle the scheduler hands out next.
FreshTimer(used) ==
    CHOOSE c \in TimerIds \ used : \A d \in TimerIds \ used : c <= d

\* Variant: an opened connection does not cancel the watch before it.
OnGatewayDebugKeepsOldWatch(message) ==
    IF Includes(message, <<"WebSocket", "connection", "closed">>)
    THEN /\ consecutiveHelloStalls' =
                StallsAfterClose(gw.isConnected, consecutiveHelloStalls)
         /\ liveTimeouts' = liveTimeouts \ {helloTimeoutId}
         /\ helloTimeoutId' = 0
         /\ livePolls' = livePolls \ {helloConnectedPollId}
         /\ helloConnectedPollId' = 0
         /\ UNCHANGED <<sawConnected>>
    ELSE IF ~Includes(message, <<"WebSocket", "connection", "opened">>)
    THEN UNCHANGED <<consecutiveHelloStalls, liveTimeouts, helloTimeoutId,
                     livePolls, helloConnectedPollId, sawConnected>>
    ELSE LET c == FreshTimer(liveTimeouts \cup livePolls)
         IN  /\ TimerIds \ (liveTimeouts \cup livePolls) /= {}
             /\ sawConnected' = [sawConnected EXCEPT ![c] = gw.isConnected]
             /\ livePolls' = livePolls \cup {c}
             /\ helloConnectedPollId' = c
             /\ liveTimeouts' = liveTimeouts \cup {c}
             /\ helloTimeoutId' = c
             /\ UNCHANGED <<consecutiveHelloStalls>>

\* onGatewayDebug (lines 91-146) for one debug line.
OnGatewayDebug(message) ==
    IF Includes(message, <<"WebSocket", "connection", "closed">>)
    THEN /\ consecutiveHelloStalls' =
                StallsAfterClose(gw.isConnected, consecutiveHelloStalls)
         /\ liveTimeouts' = liveTimeouts \ {helloTimeoutId}
         /\ helloTimeoutId' = 0
         /\ livePolls' = livePolls \ {helloConnectedPollId}
         /\ helloConnectedPollId' = 0
         /\ UNCHANGED <<sawConnected>>
    ELSE IF ~Includes(message, <<"WebSocket", "connection", "opened">>)
    THEN UNCHANGED <<consecutiveHelloStalls, liveTimeouts, helloTimeoutId,
                     livePolls, helloConnectedPollId, sawConnected>>
    ELSE LET timeouts == liveTimeouts \ {helloTimeoutId}
             polls == livePolls \ {helloConnectedPollId}
             c == FreshTimer(timeouts \cup polls)
         IN  /\ TimerIds \ (timeouts \cup polls) /= {}
             /\ sawConnected' = [sawConnected EXCEPT ![c] = gw.isConnected]
             /\ livePolls' = polls \cup {c}
             /\ helloConnectedPollId' = c
             /\ liveTimeouts' = timeouts \cup {c}
             /\ helloTimeoutId' = c
             /\ UNCHANGED <<consecutiveHelloStalls>>

\* The emitter delivers a debug line; only a registered listener sees it.
GatewayDebug(message) ==
    /\ cfg.gateway
    /\ pc /= "init"
    /\ IF debugListener THEN OnGatewayDebug(message)
       ELSE UNCHANGED <<consecutiveHelloStalls, liveTimeouts, helloTimeoutId,
                        livePolls, helloConnectedPollId, sawConnected>>
    /\ stallsSinceClose' =
           IF debugListener /\ gw.isConnected
              /\ Includes(message, <<"WebSocket", "connection", "closed">>)
           THEN 0 ELSE stallsSinceClose
    /\ UNCHANGED <<dispVars, sideVars, lifeVars, gw, calls, timeoutsFired, timeoutBudget,
                   deadlineAfterDrop>>

\* Variant: the poll stops itself without recording what it saw.
PollTickForgetsConfirmation(c) ==
    /\ c \in livePolls
    /\ IF ~gw.isConnected
       THEN UNCHANGED <<consecutiveHelloStalls, livePolls, helloConnectedPollId>>
       ELSE /\ consecutiveHelloStalls' = 0
            /\ livePolls' = livePolls \ {helloConnectedPollId}
            /\ helloConnectedPollId' = 0
    /\ UNCHANGED <<dispVars, sideVars, lifeVars, gw, calls, timeoutsFired, timeoutBudget,
                   deadlineAfterDrop, stallsSinceClose, liveTimeouts, helloTimeoutId, sawConnected>>

\* One tick of the confirmation poll of cycle c (lines 108-118).
PollTick(c) ==
    /\ c \in livePolls
    /\ IF ~gw.isConnected
       THEN UNCHANGED <<sawConnected, consecutiveHelloStalls, livePolls,
                        helloConnectedPollId>>
       ELSE /\ sawConnected' = [sawConnected EXCEPT ![c] = TRUE]
            /\ consecutiveHelloStalls' = 0
            /\ livePolls' = livePolls \ {helloConnectedPollId}
            /\ helloConnectedPollId' = 0
    /\ UNCHANGED <<dispVars, sideVars, lifeVars, gw, calls, timeoutsFired, timeoutBudget,
                   deadlineAfterDrop, stallsSinceClose, liveTimeouts, helloTimeoutId>>

\* Variant: the watchdog gives up at the escalation and fails the run.
TimeoutFiresGivesUp(c) ==
    /\ c \in liveTimeouts
    /\ timeoutsFired < timeoutBudget
    /\ timeoutsFired' = timeoutsFired + 1
    /\ deadlineAfterDrop' =
           (deadlineAfterDrop \/ (sawConnected[c] /\ ~gw.isConnected))
    /\ liveTimeouts' = liveTimeouts \ {c}
    /\ livePolls' = livePolls \ {helloConnectedPollId}
    /\ helloConnectedPollId' = 0
    /\ helloTimeoutId' = 0
    /\ IF DeadlineSeesConnected(c)
       THEN /\ consecutiveHelloStalls' = 0
            /\ UNCHANGED <<gw, calls, stallsSinceClose, pc, outcome>>
       ELSE LET stalls == consecutiveHelloStalls + 1
                forceFreshIdentify == ForceFreshIdentify(stalls)
                g == IF forceFreshIdentify THEN ClearResumeState(gw) ELSE gw
            IN  /\ stallsSinceClose' = stallsSinceClose + 1
                /\ consecutiveHelloStalls' =
                        IF forceFreshIdentify THEN 0 ELSE stalls
                /\ gw' = g
                /\ calls' = calls \o
                        <<GatewayCall("disconnect", FALSE, g),
                          GatewayCall("connect", ~forceFreshIdentify, g)>>
                /\ pc' = IF forceFreshIdentify THEN "done" ELSE pc
                /\ outcome' = IF forceFreshIdentify
                              THEN Rejected([id |-> 205, msg |-> <<"stalled">>])
                              ELSE outcome
    /\ UNCHANGED <<dispVars, sideVars, sawConnected, timeoutBudget, cfg,
                   pendingGatewayErrors, captured, thrown, sawDisallowedIntents,
                   queuedErrors, caught, errorLog, waitCalls, startCalls,
                   liveErrors, hooks, registry, guardActive, loggingAttached,
                   abortListener, aborted, debugListener, voiceManagerRef>>

\* The deadline of cycle c fires (lines 120-145).
TimeoutFires(c) ==
    /\ c \in liveTimeouts
    /\ timeoutsFired < timeoutBudget
    /\ timeoutsFired' = timeoutsFired + 1
    /\ deadlineAfterDrop' =
           (deadlineAfterDrop \/ (sawConnected[c] /\ ~gw.isConnected))
    /\ liveTimeouts' = liveTimeouts \ {c}
    /\ livePolls' = livePolls \ {helloConnectedPollId}
    /\ helloConnectedPollId' = 0
    /\ helloTimeoutId' = 0
    /\ IF DeadlineSeesConnected(c)
       THEN /\ consecutiveHelloStalls' = 0
            /\ UNCHANGED <<gw, calls, stallsSinceClose>>
       ELSE LET stalls == consecutiveHelloStalls + 1
                forceFreshIdentify == ForceFreshIdentify(stalls)
                g == IF forceFreshIdentify THEN ClearResumeState(gw) ELSE gw
            IN  /\ stallsSinceClose' = stallsSinceClose + 1
                /\ consecutiveHelloStalls' =
                        IF forceFreshIdentify THEN 0 ELSE stalls
                /\ gw' = g
                /\ calls' = calls \o
                        <<GatewayCall("disconnect", FALSE, g),
                          GatewayCall("connect", ~forceFreshIdentify, g)>>
    /\ UNCHANGED <<dispVars, sideVars, lifeVars, sawConnected, timeoutBudget>>

\* Carbon flips isConnected: true after READY/RESUMED, false when it drops.
\* Only the watchdog reads the flag, so the flips are followed while the
\* watchdog is wired.
GatewayConnected(b) ==
    /\ cfg.gateway
    /\ debugListener
    /\ gw.isConnected /= b
    /\ gw' = [gw EXCEPT !.isConnected = b]
    /\ UNCHANGED <<dispVars, sideVars, lifeVars, calls, wdVars, helloTimeoutId,
                   helloConnectedPollId, liveTimeouts, livePolls>>

----------------------------------------------------------------------------
\* The ordered event dispatcher (DiscordMessageListener of
\* src/discord/monitor/listeners.ts, imported by listeners.test.ts line 2).
\* Its source is not part of the files at hand; the definitions below follow
\* section 4.4 of the specification and the three tests of listeners.test.ts.

\* payloads of the events
Events == {"A", "B"}

\* Variant: handle() awaits its handler, so only the calls whose handler has
\* settled are resolved.
HandleAwaitsHandler(callsMade, settled) ==
    settled

\* handle() does not await the handler: when the task that called it ends,
\* the promise of every call made so far is resolved.
HandleResolved(callsMade, settled) ==
    callsMade

\* Variant: the handler is invoked without waiting for the chain tail.
TailIgnored(running) ==
    TRUE

\* The chain tail is settled, so a new link runs at once.
TailSettled(running) ==
    running = 0

\* Variant: only the newest call is kept for the next link.
ChainNextNewest(callsMade, started) ==
    callsMade[Len(callsMade)]

\* The link that runs when the tail settles: the oldest call not yet run.
ChainNext(callsMade, started) ==
    callsMade[Len(started) + 1]

\* handle(event, context): append the handler invocation to the chain.
Handle(ev) ==
    /\ Len(dCalls) < MaxEvents
    /\ LET e == [n |-> Len(dCalls) + 1, ev |-> ev]
       IN  /\ dCalls' = Append(dCalls, e)
           /\ IF TailSettled(dRunning)
              THEN dStarted' = Append(dStarted, e) /\ dRunning' = e.n
              ELSE UNCHANGED <<dStarted, dRunning>>
           /\ dResolved' = HandleResolved(Len(dCalls) + 1, Len(dSettled))
    /\ UNCHANGED <<dSettled, dErrorLog>>
    /\ UNCHANGED <<sideVars, lifeVars, gw, calls, wdVars, helloTimeoutId,
                   helloConnectedPollId, liveTimeouts, livePolls>>

\* Variant: a failed handler is swallowed without a word.
HandlerFailureDropped(log, n, ok) ==
    log

\* logger.error after handler n has settled: a failure is caught and logged.
HandlerFailureLogged(log, n, ok) ==
    IF ok THEN log ELSE Append(log, n)

\* The handler body in flight settles: a failure is caught and logged, and
\* the next link of the chain, when there is one, starts.
HandlerSettles(ok) ==
    /\ dRunning /= 0
    /\ dSettled' = Append(dSettled, [n |-> dRunning, ok |-> ok])
    /\ dErrorLog' = HandlerFailureLogged(dErrorLog, dRunning, ok)
    /\ IF Len(dStarted) < Len(dCalls)
       THEN LET e == ChainNext(dCalls, dStarted)
            IN  dStarted' = Append(dStarted, e) /\ dRunning' = e.n
       ELSE dRunning' = 0 /\ UNCHANGED dStarted
    /\ dResolved' = HandleResolved(Len(dCalls), Len(dSettled) + 1)
    /\ UNCHANGED dCalls
    /\ UNCHANGED <<sideVars, lifeVars, gw, calls, wdVars, helloTimeoutId,
                   helloConnectedPollId, liveTimeouts, livePolls>>

----------------------------------------------------------------------------
\* Several runs in one process and the gateway registry they share
\* (registerGateway of line 30, unregisterGateway of line 209).

RunIds == 1..MaxRuns

\* params.accountId
Accounts == {"default", "work"}

IdleRun == [phase |-> "idle", account |-> "default", handle |-> FALSE]

\* registerGateway(accountId, gateway): the entry of the identity is set.
RegisterGateway(reg, account, i) ==
    [reg EXCEPT ![account] = i]

\* unregisterGateway(accountId): the entry of the identity is deleted.
UnregisterGateway(reg, account) ==
    [reg EXCEPT ![account] = 0]

\* Lines 28-31: a run begins for an identity, with or without a handle.
RunBegins(i, account, handle) ==
    /\ runs[i].phase = "idle"
    /\ runs' = [runs EXCEPT ![i] = [phase |-> "active", account |-> account,
                                    handle |-> handle]]
    /\ gatewayRegistry' = IF handle
                          THEN RegisterGateway(gatewayRegistry, account, i)
                          ELSE gatewayRegistry
    /\ UNCHANGED <<lifeVars, gw, calls, wdVars, dispVars, bootVars,
                   helloTimeoutId, helloConnectedPollId, liveTimeouts, livePolls>>

\* Lines 207-209: the finally block of a run is entered.
RunTearsDown(i) ==
    /\ runs[i].phase = "active"
    /\ runs' = [runs EXCEPT ![i].phase = "ended"]
    /\ gatewayRegistry' = UnregisterGateway(gatewayRegistry, runs[i].account)
    /\ UNCHANGED <<lifeVars, gw, calls, wdVars, dispVars, bootVars,
                   helloTimeoutId, helloConnectedPollId, liveTimeouts, livePolls>>

----------------------------------------------------------------------------
\* resolveBootstrapFilesForRun (src/unnamed/part_001).  A string is the
\* sequence of its characters; a path that is not a string is Null.

FileNames == {"HEARTBEAT.md", "AGENTS.md"}

PathStrings == {<<" ">>, <<" ", "p">>}

BootstrapFiles ==
    [name : FileNames, path : {Null} \cup {Some(s) : s \in PathStrings}]

ContextModes == {"unset", "full", "lightweight"}

RunKinds == {"unset", "default", "heartbeat", "cron"}

\* String.prototype.trim, for the white space the paths above hold.
RECURSIVE TrimStart(_)
TrimStart(s) ==
    IF s /= <<>> /\ Head(s) = " " THEN TrimStart(Tail(s)) ELSE s

RECURSIVE TrimEnd(_)
TrimEnd(s) ==
    IF s /= <<>> /\ s[Len(s)] = " "
    THEN TrimEnd(SubSeq(s, 1, Len(s) - 1))
    ELSE s

Trim(s) ==
    TrimEnd(TrimStart(s))

\* Line 35.
PathValue(file) ==
    IF file.path /= Null THEN Trim(file.path[1]) ELSE <<>>

\* Variant: a file without a usable path is kept as it is.
RECURSIVE SanitizeKeepsAll(_)
SanitizeKeepsAll(files) ==
    IF files = <<>> THEN [files |-> <<>>, warned |-> 0]
    ELSE LET rest == SanitizeKeepsAll(Tail(files))
         IN  [rest EXCEPT !.files = <<Head(files)>> \o @]

\* sanitizeBootstrapFiles (lines 29-45): the files kept, and the warnings.
RECURSIVE SanitizeBootstrapFiles(_)
SanitizeBootstrapFiles(files) ==
    IF files = <<>> THEN [files |-> <<>>, warned |-> 0]
    ELSE LET file == Head(files)
             rest == SanitizeBootstrapFiles(Tail(files))
         IN  IF PathValue(file) = <<>>
             THEN [rest EXCEPT !.warned = @ + 1]
             ELSE [rest EXCEPT !.files =
                       <<[file EXCEPT !.path = Some(PathValue(file))]>> \o @]

IsHeartbeat(file) ==
    file.name = "HEARTBEAT.md"

\* Variant: the context mode is not looked at.
ApplyContextModeFilterKeepsAll(files, contextModeParam, runKindParam) ==
    files

\* applyContextModeFilter (lines 47-62).
ApplyContextModeFilter(files, contextModeParam, runKindParam) ==
    LET contextMode == IF contextModeParam = "unset" THEN "full"
                       ELSE contextModeParam
        runKind == IF runKindParam = "unset" THEN "default" ELSE runKindParam
    IN  IF contextMode /= "lightweight" THEN files
        ELSE IF runKind = "heartbeat" THEN SelectSeq(files, IsHeartbeat)
        ELSE <<>>

\* What applyBootstrapHookOverrides (lines 86-93) can resolve with: the list
\* it was given, that list with files added, or a list put in its place.
HookOverrides(files) ==
    {files \o extra : extra \in SeqsUpTo(BootstrapFiles, MaxHookFiles)}
        \cup SeqsUpTo(BootstrapFiles, MaxHookFiles)

\* Lines 75-85: the files of the session are loaded and filtered by context
\* mode, and applyBootstrapHookOverrides is called.
BootstrapLoad ==
    /\ bPc = "idle"
    /\ bFiltered' = ApplyContextModeFilter(bFiles, bParams.contextMode,
                                           bParams.runKind)
    /\ bPc' = "hooks"
    /\ UNCHANGED <<bParams, bFiles, bUpdated, bResult, bWarned>>
    /\ UNCHANGED <<lifeVars, gw, calls, wdVars, dispVars, regVars,
                   helloTimeoutId, helloConnectedPollId, liveTimeouts, livePolls>>

\* Lines 86-94: the hook overrides resolve and the list is sanitized.
BootstrapHooksSettle(updated) ==
    /\ bPc = "hooks"
    /\ bUpdated' = updated
    /\ bResult' = SanitizeBootstrapFiles(updated).files
    /\ bWarned' = SanitizeBootstrapFiles(updated).warned
    /\ bPc' = "done"
    /\ UNCHANGED <<bParams, bFiles, bFiltered>>
    /\ UNCHANGED <<lifeVars, gw, calls, wdVars, dispVars, regVars,
                   helloTimeoutId, helloConnectedPollId, liveTimeouts, livePolls>>

----------------------------------------------------------------------------
Configs ==
    [gateway : BOOLEAN, voice : BOOLEAN, approvals : BOOLEAN,
     guard : {TRUE}, signal : {"none", "idle", "aborted"}]

ResumeState ==
    [sessionId |-> Some("session-1"),
     resumeGatewayUrl |-> Some("wss://gateway.discord.gg"),
     sequence |-> Some(123)]

\* resolveBootstrapFilesForRun has not been called.
BootstrapIdle ==
    /\ bPc = "idle"
    /\ bParams = [contextMode |-> "unset", runKind |-> "unset"]
    /\ bFiles = <<>>
    /\ bFiltered = <<>>
    /\ bUpdated = <<>>
    /\ bResult = <<>>
    /\ bWarned = 0

InitMain(configs, queues, budget) ==
    /\ cfg \in configs
    /\ pendingGatewayErrors \in {QueueOf(q, 1) : q \in queues}
    /\ captured = pendingGatewayErrors
    /\ pc = "init"
    /\ thrown = NoError
    /\ outcome = Running
    /\ sawDisallowedIntents = FALSE
    /\ queuedErrors = <<>>
    /\ caught = NoError
    /\ errorLog = <<>>
    /\ waitCalls = 0
    /\ startCalls = 0
    /\ liveErrors = 0
    /\ hooks = <<>>
    /\ registry = {}
    /\ guardActive = cfg.guard
    /\ loggingAttached = FALSE
    /\ abortListener = FALSE
    /\ aborted = (cfg.signal = "aborted")
    /\ debugListener = FALSE
    /\ voiceManagerRef = cfg.voice
    /\ gw = [isConnected |-> FALSE, maxAttempts |-> 50,
             state |-> ResumeState, sequence |-> Some(123)]
    /\ calls = <<>>
    /\ helloTimeoutId = 0
    /\ helloConnectedPollId = 0
    /\ liveTimeouts = {}
    /\ livePolls = {}
    /\ sawConnected = [c \in TimerIds |-> FALSE]
    /\ consecutiveHelloStalls = 0
    /\ timeoutsFired = 0
    /\ timeoutBudget = budget
    /\ stallsSinceClose = 0
    /\ deadlineAfterDrop = FALSE
    /\ dCalls = <<>>
    /\ dResolved = 0
    /\ dStarted = <<>>
    /\ dSettled = <<>>
    /\ dRunning = 0
    /\ dErrorLog = <<>>
    /\ runs = [i \in RunIds |-> IdleRun]
    /\ gatewayRegistry = [a \in Accounts |-> 0]

InitWith(configs, queues, budget) ==
    /\ BootstrapIdle
    /\ InitMain(configs, queues, budget)

\* Every configuration and every pre-captured queue; few deadlines.
Init ==
    InitWith(Configs, SeqsUpTo(GatewayErrorMessages, MaxPending), MaxRunTimeouts)

\* One configuration with every collaborator present and an empty queue;
\* enough deadlines for two escalations of the watchdog.
WatchdogConfigs ==
    {c \in Configs : c.gateway /\ c.voice /\ c.approvals
                      /\ c.signal = "idle"}

InitWatchdog ==
    InitWith(WatchdogConfigs, {<<>>}, MaxTimeouts)

Next ==
    \/ \E setup \in SetupOutcomes : Begin(setup)
    \/ \E ok \in BOOLEAN : StartSettles(ok)
    \/ \E m \in GatewayErrorMessages : LiveError(m)
    \/ GatewayStops
    \/ AbortFires
    \/ \E ok \in BOOLEAN : DestroySettles(ok)
    \/ \E ok \in BOOLEAN : StopSettles(ok)
    \/ \E m \in DebugMessages : GatewayDebug(m)
    \/ \E c \in TimerIds : PollTick(c)
    \/ \E c \in TimerIds : TimeoutFires(c)
    \/ \E b \in BOOLEAN : GatewayConnected(b)

Spec == Init /\ [][Next]_vars

\* The dispatcher alone: no lifecycle run is started.
InitDispatcher ==
    InitWith(WatchdogConfigs, {<<>>}, 0)

NextDispatcher ==
    \/ \E ev \in Events : Handle(ev)
    \/ \E ok \in BOOLEAN : HandlerSettles(ok)

SpecDispatcher == InitDispatcher /\ [][NextDispatcher]_vars

\* Every handler body settles in the end, by success or by failure.
SpecDispatcherFair ==
    /\ InitDispatcher
    /\ [][NextDispatcher]_vars
    /\ WF_vars(\E ok \in BOOLEAN : HandlerSettles(ok))

SpecWatchdog == InitWatchdog /\ [][Next]_vars

\* Several runs and their registry alone.
NextRegistry ==
    \/ \E i \in RunIds, a \in Accounts, h \in BOOLEAN : RunBegins(i, a, h)
    \/ \E i \in RunIds : RunTearsDown(i)

InitRegistry ==
    InitWith(WatchdogConfigs, {<<>>}, 0)

\* resolveBootstrapFilesForRun alone, for every context mode, run kind and
\* list of session files.
InitBootstrap ==
    /\ InitMain(WatchdogConfigs, {<<>>}, 0)
    /\ bPc = "idle"
    /\ bParams \in [contextMode : ContextModes, runKind : RunKinds]
    /\ bFiles \in SeqsUpTo(BootstrapFiles, MaxFiles)
    /\ bFiltered = <<>>
    /\ bUpdated = <<>>
    /\ bResult = <<>>
    /\ bWarned = 0

NextBootstrap ==
    \/ BootstrapLoad
    \/ \E updated \in HookOverrides(bFiltered) : BootstrapHooksSettle(updated)

SpecBootstrap == InitBootstrap /\ [][NextBootstrap]_vars

SpecRegistry == InitRegistry /\ [][NextRegistry]_vars

\* The scheduler runs a timer callback that stays due: a deadline that is
\* neither cancelled nor out of the model's budget fires in the end.
SpecWatchdogFair ==
    /\ InitWatchdog
    /\ [][Next]_vars
    /\ \A c \in TimerIds : WF_vars(TimeoutFires(c))

\* The run with a caller whose guard keeps capturing errors; the gateway
\* emits no debug lines, so the watchdog stays idle.
InitDrain ==
    InitWith(Configs, SeqsUpTo(GatewayErrorMessages, MaxPending), 0)

NextDrain ==
    \/ \E setup \in SetupOutcomes : Begin(setup)
    \/ \E ok \in BOOLEAN : StartSettles(ok)
    \/ \E m \in GatewayErrorMessages : LiveError(m)
    \/ GatewayStops
    \/ AbortFires
    \/ \E ok \in BOOLEAN : DestroySettles(ok)
    \/ \E ok \in BOOLEAN : StopSettles(ok)
    \/ \E m \in GatewayErrorMessages : GuardCapture(m)

SpecDrain == InitDrain /\ [][NextDrain]_vars

----------------------------------------------------------------------------
\* Properties of the lifecycle run.

Count(seq, x) == Cardinality({i \in DOMAIN seq : seq[i] = x})

RunEnded == outcome.kind /= "running"

\* The teardown hooks the run owes its caller.
OwedTeardownHooks ==
    {"releaseEarlyGatewayErrorGuard", "unregisterGateway",
     "stopGatewayLogging", "clearHelloWatch", "threadBindings.stop"}
    \cup (IF cfg.voice THEN {"voiceManager.destroy"} ELSE {})
    \cup (IF cfg.approvals THEN {"execApprovalsHandler.stop"} ELSE {})

\* C1: whichever way a run ends (successful wait, an error thrown by any
\* step, cancellation), every teardown hook that exists has been invoked
\* exactly once by the time the run's success or error reaches the caller.
C1_EveryHookExactlyOnce ==
    RunEnded => \A h \in OwedTeardownHooks : Count(hooks, h) = 1

\* The place of a teardown call in the order of the claim; the three
\* detachments of the watchdog and of the error logging share a place.
TeardownRank(h) ==
    CASE h = "releaseEarlyGatewayErrorGuard" -> 1
      [] h = "unregisterGateway" -> 2
      [] h \in {"stopGatewayLogging", "clearHelloWatch", "removeDebugListener"} -> 3
      [] h = "removeAbortListener" -> 4
      [] h = "voiceManager.destroy" -> 5
      [] h \in {"voiceManager.destroy:resolved", "voiceManager.destroy:rejected"} -> 6
      [] h = "voiceManagerRef.current=null" -> 7
      [] h = "execApprovalsHandler.stop" -> 8
      [] h \in {"execApprovalsHandler.stop:resolved",
                "execApprovalsHandler.stop:rejected"} -> 9
      [] h = "threadBindings.stop" -> 10
      [] OTHER -> 0

\* The places a complete teardown goes through, for the run's collaborators.
ExpectedRanks ==
    <<1, 2, 3, 3, 3, 4>>
    \o (IF cfg.voice THEN <<5, 6, 7>> ELSE <<>>)
    \o (IF cfg.approvals THEN <<8, 9>> ELSE <<>>)
    \o <<10>>

DependentStops ==
    {"voiceManager.destroy", "execApprovalsHandler.stop", "threadBindings.stop"}

\* C2: the teardown calls are made in the fixed order (release the guard,
\* unregister, detach logging and watchdog and cancel its timers, detach the
\* cancellation listener, stop the voice manager and clear its reference,
\* stop approvals, stop thread bindings), a call is made only after the one
\* before it has completed, and no dependent resource is stopped while the
\* handle is registered.
C2_TeardownOrder ==
    /\ Len(hooks) <= Len(ExpectedRanks)
    /\ \A i \in DOMAIN hooks : TeardownRank(hooks[i]) = ExpectedRanks[i]
    /\ \A i, j \in DOMAIN hooks : i /= j => hooks[i] /= hooks[j]
    /\ (\E i \in DOMAIN hooks : hooks[i] \in DependentStops)
           => /\ AccountId \notin registry
              /\ ~debugListener /\ ~abortListener /\ ~loggingAttached
              /\ liveTimeouts = {} /\ livePolls = {}
    /\ Count(hooks, "execApprovalsHandler.stop") = 1 => ~voiceManagerRef

C2_Witness ==
    /\ pc = "done"
    /\ cfg.gateway /\ cfg.voice /\ cfg.approvals
    /\ hooks /= <<>>
    /\ hooks[Len(hooks)] = "threadBindings.stop"
    /\ calls /= <<>>

\* The place of the first queued error that the stop predicate matches.
FirstStopper(q) ==
    IF \E i \in DOMAIN q : ShouldStopOnGatewayError(q[i])
    THEN CHOOSE i \in DOMAIN q :
            /\ ShouldStopOnGatewayError(q[i])
            /\ \A j \in 1..(i - 1) : ~ShouldStopOnGatewayError(q[j])
    ELSE 0

TeardownRan == Count(hooks, "unregisterGateway") = 1

\* C6: when the queue holds a disallowed error and no queued error before it
\* matches the stop predicate, the run resolves, the wait primitive is never
\* called, and teardown runs.
C6_QueuedDisallowedResolves ==
    (RunEnded /\ FirstStopper(queuedErrors) /= 0
        /\ IsDisallowedIntentsError(queuedErrors[FirstStopper(queuedErrors)]))
    => (outcome = Resolved /\ waitCalls = 0 /\ TeardownRan)

\* C7: when the first queued error that matches the stop predicate is fatal
\* and not disallowed, the run rejects with that very error, the wait
\* primitive is never called, and teardown runs.
C7_QueuedFatalRejects ==
    (RunEnded /\ FirstStopper(queuedErrors) /= 0
        /\ ~IsDisallowedIntentsError(queuedErrors[FirstStopper(queuedErrors)]))
    => (outcome = Rejected(queuedErrors[FirstStopper(queuedErrors)])
        /\ waitCalls = 0 /\ TeardownRan)

\* The error that ended the run's work: the one thrown by the wiring before
\* the try block, or else the one the catch clause received.
EndingError ==
    IF RunEnded /\ ~TeardownRan THEN thrown ELSE caught

\* C8: the error that ends the run decides its outcome: success when there
\* is none or when it is disallowed, rejection with that error otherwise.
C8_OutcomeByEndingError ==
    RunEnded =>
        outcome = IF EndingError = NoError \/ IsDisallowedIntentsError(EndingError)
                  THEN Resolved ELSE Rejected(EndingError)

----------------------------------------------------------------------------
\* Properties of the stall watchdog.

\* The deadline of cycle c fires in this step.
DeadlineStep(c) ==
    /\ c \in liveTimeouts
    /\ c \notin liveTimeouts'
    /\ timeoutsFired' = timeoutsFired + 1

\* The step counts a stall: the deadline fires with no confirmation.
CountedStallStep(c) ==
    DeadlineStep(c) /\ ~DeadlineSeesConnected(c)

WatchdogConnects(resume) ==
    {i \in DOMAIN calls : /\ calls[i].op = "connect"
                          /\ calls[i].by = "watchdog"
                          /\ calls[i].resume = resume}

\* C3: a counted stall timeout that is the first or the second in a row
\* reconnects with connect(true) and leaves state.sessionId,
\* state.resumeGatewayUrl, state.sequence and sequence as they were.
C3_EarlyStallsResume ==
    [][\A c \in TimerIds :
        (CountedStallStep(c)
            /\ consecutiveHelloStalls + 1 < MAX_CONSECUTIVE_HELLO_STALLS)
        => /\ Len(calls') = Len(calls) + 2
           /\ SubSeq(calls', 1, Len(calls)) = calls
           /\ calls'[Len(calls) + 1].op = "disconnect"
           /\ calls'[Len(calls) + 2].op = "connect"
           /\ calls'[Len(calls) + 2].resume = TRUE
           /\ gw'.state = gw.state
           /\ gw'.sequence = gw.sequence
           /\ consecutiveHelloStalls' = consecutiveHelloStalls + 1]_vars

C3_Witness ==
    /\ consecutiveHelloStalls = 2
    /\ Cardinality(WatchdogConnects(TRUE)) = 2
    /\ WatchdogConnects(FALSE) = {}
    /\ gw.state = ResumeState /\ gw.sequence = Some(123)

ClosedWhileConnected ==
    /\ debugListener
    /\ gw.isConnected
    /\ GatewayDebug(MsgClosed)

\* C5: a close observed while isConnected is true resets the stall counter
\* to 0 at once, so the counter never exceeds the number of stalls counted
\* since the last such close: stalls on both sides of a connection that was
\* confirmed and then dropped never add up to a forced fresh identify.
C5_CloseWhileConnectedResets ==
    [][/\ ClosedWhileConnected => consecutiveHelloStalls' = 0
       /\ consecutiveHelloStalls' <= stallsSinceClose']_vars

C5_Witness ==
    /\ Cardinality(WatchdogConnects(TRUE)) = 4
    /\ WatchdogConnects(FALSE) = {}
    /\ stallsSinceClose = 2
    /\ consecutiveHelloStalls = 2

----------------------------------------------------------------------------
\* Properties of the ordered dispatcher.

\* C9: handle() returns without waiting for a handler body: every call made
\* so far has returned, also while an earlier handler is still running.
C9_HandleReturnsAtOnce ==
    dResolved = Len(dCalls)

C9_Witness ==
    /\ Len(dCalls) = 3
    /\ dRunning = 1
    /\ dSettled = <<>>
    /\ dResolved = 3

\* C10: handler bodies start in the order of the handle() calls, and the
\* handler of an event starts only after the handlers of all events enqueued
\* before it have started and settled.
C10_HandlersStartInCallOrder ==
    /\ Len(dStarted) <= Len(dCalls)
    /\ \A i \in DOMAIN dStarted : dStarted[i] = dCalls[i]
    /\ Len(dSettled) <= Len(dStarted)
    /\ Len(dStarted) <= Len(dSettled) + 1
    /\ \A i \in DOMAIN dSettled : dSettled[i].n = dStarted[i].n

C10_Witness ==
    /\ Len(dCalls) = 3
    /\ Len(dStarted) = 2
    /\ Len(dSettled) = 1
    /\ dRunning = 2
    /\ dCalls[1].ev /= dCalls[2].ev

\* Handler bodies that have begun and have not settled.
HandlersExecuting ==
    {dStarted[i].n : i \in DOMAIN dStarted} \ {dSettled[i].n : i \in DOMAIN dSettled}

\* C11: for one dispatcher, at most one handler body is executing at any
\* moment, under every interleaving of handle() calls and completions.
C11_AtMostOneHandlerExecuting ==
    /\ Cardinality(HandlersExecuting) <= 1
    /\ Len(dStarted) - Len(dSettled) <= 1

C11_Witness ==
    /\ Len(dCalls) = 3
    /\ Len(dSettled) = 1
    /\ HandlersExecuting = {2}

\* The handlers that failed, in the order they settled.
FailedHandlers ==
    LET failed == SelectSeq(dSettled, LAMBDA s : ~s.ok)
    IN  [i \in DOMAIN failed |-> failed[i].n]

\* C12: a handler that throws is caught and logged to the error sink, the
\* failure never reaches the caller of handle() (every call still resolves),
\* and every handler enqueued after it still runs: the chain never stops
\* while calls are waiting.
C12_HandlerFailureIsolated ==
    /\ dErrorLog = FailedHandlers
    /\ dResolved = Len(dCalls)
    /\ Len(dStarted) =
           IF Len(dCalls) <= Len(dSettled) THEN Len(dCalls) ELSE Len(dSettled) + 1

C12_Witness ==
    /\ Len(dSettled) = 2
    /\ ~dSettled[1].ok /\ dSettled[2].ok
    /\ dErrorLog = <<1>>
    /\ Len(dStarted) = 3

----------------------------------------------------------------------------
\* Properties of registration and cancellation.

\* C13: the registry holds at most one entry per identity; a run with a handle
\* registers it under its accountId at start, and after the run has ended,
\* by success or by an error at any step (the steps before the dependent
\* resources are started included), the registry holds no entry for it.
C13_RegistryEntryRemoved ==
    /\ registry \subseteq {AccountId}
    /\ (cfg.gateway /\ pc \in {"starting", "waiting"}) => AccountId \in registry
    /\ RunEnded => AccountId \notin registry

AbortCalls ==
    {i \in DOMAIN calls : calls[i].by = "abort"}

\* The run observes the signal in this step: it is already set when the
\* wiring of line 47 is reached, or it fires while the run is in flight.
SignalObserved ==
    /\ cfg.gateway
    /\ cfg.signal /= "none"
    /\ \/ pc = "init" /\ pc' /= "init" /\ aborted /\ loggingAttached'
       \/ pc \in {"starting", "waiting"} /\ ~aborted /\ aborted'

\* C14: when the cancellation signal is observed for a run with a handle,
\* already set at the start or fired while the run is active, the reconnect
\* policy is set to maxAttempts 0 and disconnect() is called, and the policy
\* is already 0 at the moment of that call.
C14_AbortDisablesReconnectThenDisconnects ==
    [][SignalObserved
        => /\ Len(calls') = Len(calls) + 1
           /\ calls'[Len(calls')].op = "disconnect"
           /\ calls'[Len(calls')].by = "abort"
           /\ calls'[Len(calls')].maxAttempts = 0
           /\ gw'.maxAttempts = 0]_vars

C14_Witness ==
    /\ cfg.signal = "idle"
    /\ aborted
    /\ pc = "starting"
    /\ AbortCalls /= {}
    /\ gw.maxAttempts = 0

\* C15: the cancellation handler force-disconnects the handle at most once
\* in a run however often the signal is triggered, and a firing of the
\* signal after the run's teardown leaves the handle alone.
C15_AbortOneShot ==
    /\ [](Cardinality(AbortCalls) <= 1)
    /\ [][(TeardownRan /\ ~aborted /\ aborted')
            => (calls' = calls /\ gw' = gw /\ ~abortListener)]_vars

C15_Witness ==
    /\ cfg.gateway
    /\ cfg.signal = "idle"
    /\ pc = "done"
    /\ TeardownRan
    /\ aborted
    /\ AbortCalls = {}

----------------------------------------------------------------------------
\* Properties of the timers, the start hook and the drain.

\* C16: in every reachable state of a run at most one deadline timer and at
\* most one confirmation poll are live, and every live timer is the one the
\* watchdog still tracks.
C16_AtMostOneTimerOfEachKind ==
    /\ Cardinality(liveTimeouts) <= 1
    /\ Cardinality(livePolls) <= 1
    /\ liveTimeouts \subseteq {helloTimeoutId}
    /\ livePolls \subseteq {helloConnectedPollId}

C16_Witness ==
    /\ timeoutsFired >= 2
    /\ Len(calls) >= 4
    /\ liveTimeouts /= {}
    /\ livePolls /= {}

\* C17: when the approvals start hook fails, the run rejects with that start
\* error, the pending error queue is not drained, the wait primitive is
\* never called, and the full teardown runs, the approvals stop hook and the
\* thread bindings stop included.
C17_StartFailureGoesToTeardown ==
    (RunEnded /\ caught = ErrStartup)
    => /\ outcome = Rejected(ErrStartup)
       /\ queuedErrors = <<>>
       /\ pendingGatewayErrors = captured
       /\ errorLog = <<>>
       /\ waitCalls = 0
       /\ \A h \in OwedTeardownHooks : Count(hooks, h) = 1

\* C18: a stall timeout is never surfaced as a failure: a deadline that
\* fires, a forced fresh identify included, neither ends the run nor changes
\* its outcome; the run keeps waiting and a counted stall is answered by the
\* watchdog's own disconnect and connect.
C18_StallNeverEndsRun ==
    [][\A c \in TimerIds :
        DeadlineStep(c)
        => /\ pc' = pc
           /\ outcome' = outcome
           /\ thrown' = thrown
           /\ caught' = caught
           /\ hooks' = hooks
           /\ errorLog' = errorLog
           /\ CountedStallStep(c) => Len(calls') = Len(calls) + 2]_vars

C18_Witness ==
    /\ pc = "waiting"
    /\ outcome = Running
    /\ timeoutsFired = MaxTimeouts
    /\ WatchdogConnects(FALSE) /= {}
    /\ hooks = <<>>

\* Lines of runtime.error written for the error with this identity.
LogCount(id) ==
    Cardinality({i \in DOMAIN errorLog : errorLog[i].err = id})

\* C19: a queued error that the stop predicate does not match is logged once
\* and does not end the run: the drain goes on to the next queued error, and
\* when the queue holds only such errors the wait primitive is called
\* exactly once.
C19_TransientQueuedErrorContinues ==
    LET s == FirstStopper(queuedErrors)
    IN  /\ \A i \in DOMAIN queuedErrors :
              (~ShouldStopOnGatewayError(queuedErrors[i]) /\ (s = 0 \/ i < s))
              => LogCount(queuedErrors[i].id) = 1
        /\ s /= 0 => LogCount(queuedErrors[s].id) = 1
        /\ (queuedErrors /= <<>> /\ s = 0) => waitCalls = 1
        /\ waitCalls <= 1

C19_Witness ==
    /\ Len(queuedErrors) >= 2
    /\ FirstStopper(queuedErrors) = 0
    /\ pc = "waiting"
    /\ waitCalls = 1
    /\ Len(errorLog) = Len(queuedErrors)

\* C20: the drain takes a snapshot of the caller's queue and empties the
\* queue before the first error is processed: whatever the drain's outcome,
\* the caller's queue holds none of the captured errors afterwards, each
\* captured error is processed at most once, and an error appended after
\* the snapshot is never processed by the drain.
C20_DrainSnapshotsAndEmpties ==
    LET n == Len(queuedErrors)
    IN  /\ n <= Len(captured)
        /\ queuedErrors = SubSeq(captured, 1, n)
        /\ pendingGatewayErrors = SubSeq(captured, n + 1, Len(captured))
        /\ \A i \in DOMAIN captured :
              /\ LogCount(captured[i].id) <= 1
              /\ i > n => LogCount(captured[i].id) = 0

C20_Witness ==
    /\ Len(queuedErrors) = 2
    /\ Len(errorLog) = 2
    /\ pendingGatewayErrors /= <<>>
    /\ pc = "waiting"

----------------------------------------------------------------------------
\* Properties of the watch cycle.

\* The poll of cycle c ticks and finds the handle connected.
PollConfirms(c) ==
    PollTick(c) /\ gw.isConnected

\* C21 as stated: when the confirmation poll observes isConnected = true
\* before the deadline, the poll and the deadline timer are both cancelled
\* at that moment, the counter is reset to 0, and no timer is live.
C21_PollCancelsBothTimers ==
    [][\A c \in TimerIds :
        PollConfirms(c)
        => /\ livePolls' = {}
           /\ liveTimeouts' = {}
           /\ consecutiveHelloStalls' = 0]_vars

\* C21 amended: when the confirmation poll observes isConnected = true
\* before the deadline, the poll is cancelled at that moment and the counter
\* is reset to 0; the deadline timer stays pending, and when it fires it
\* counts no stall and calls neither disconnect() nor connect().
C21_PollCancelsItselfOnly ==
    [][\A c \in TimerIds :
        /\ PollConfirms(c)
           => /\ livePolls' = {}
              /\ helloConnectedPollId' = 0
              /\ consecutiveHelloStalls' = 0
              /\ liveTimeouts' = liveTimeouts
              /\ helloTimeoutId' = helloTimeoutId
              /\ sawConnected'[c]
        /\ (DeadlineStep(c) /\ livePolls = {})
           => /\ calls' = calls
              /\ gw' = gw
              /\ consecutiveHelloStalls' = 0
              /\ stallsSinceClose' = stallsSinceClose]_vars

C21_Witness ==
    /\ liveTimeouts /= {}
    /\ livePolls = {}
    /\ helloConnectedPollId = 0
    /\ ~gw.isConnected
    /\ consecutiveHelloStalls = 0
    /\ timeoutsFired >= 1

\* C22: a deadline fires only for the watch that the latest
\* CONNECTION-OPENED started: each CONNECTION-OPENED cancels the pending
\* deadline and poll and starts one fresh deadline and one fresh poll, each
\* CONNECTION-CLOSED cancels both whatever the cause, so no stall is counted
\* for a superseded or closed connection.
C22_DeadlineOnlyForCurrentWatch ==
    [][/\ (debugListener /\ GatewayDebug(MsgOpened))
          => /\ helloTimeoutId' /= 0
             /\ helloConnectedPollId' /= 0
             /\ liveTimeouts' = {helloTimeoutId'}
             /\ livePolls' = {helloConnectedPollId'}
             /\ sawConnected'[helloTimeoutId'] = gw.isConnected
             /\ consecutiveHelloStalls' = consecutiveHelloStalls
       /\ (debugListener /\ GatewayDebug(MsgClosed))
          => /\ liveTimeouts' = {}
             /\ livePolls' = {}
             /\ helloTimeoutId' = 0
             /\ helloConnectedPollId' = 0
       /\ \A c \in TimerIds :
            DeadlineStep(c) => (c = helloTimeoutId /\ liveTimeouts = {c})]_vars

C22_Witness ==
    /\ consecutiveHelloStalls = 1
    /\ helloTimeoutId /= 0
    /\ liveTimeouts = {helloTimeoutId}
    /\ livePolls = {helloConnectedPollId}
    /\ stallsSinceClose = 1

\* C23: every counted stall timeout cancels the poll, increments the counter
\* and makes the watchdog call disconnect() once and then connect() once, in
\* that order; a deadline that fires for a confirmed connection calls
\* neither.
C23_StallDisconnectsThenConnects ==
    [][\A c \in TimerIds :
        /\ (DeadlineStep(c) /\ ~sawConnected[c] /\ ~gw.isConnected)
           => /\ livePolls' = {}
              /\ stallsSinceClose' = stallsSinceClose + 1
              /\ consecutiveHelloStalls' =
                     IF consecutiveHelloStalls + 1 >= MAX_CONSECUTIVE_HELLO_STALLS
                     THEN 0 ELSE consecutiveHelloStalls + 1
              /\ Len(calls') = Len(calls) + 2
              /\ SubSeq(calls', 1, Len(calls)) = calls
              /\ calls'[Len(calls) + 1].op = "disconnect"
              /\ calls'[Len(calls) + 1].by = "watchdog"
              /\ calls'[Len(calls) + 2].op = "connect"
              /\ calls'[Len(calls) + 2].by = "watchdog"
        /\ (DeadlineStep(c) /\ (sawConnected[c] \/ gw.isConnected))
           => (calls' = calls /\ gw' = gw)]_vars

C23_Witness ==
    /\ Len(calls) = 2
    /\ calls[1].op = "disconnect" /\ calls[1].by = "watchdog"
    /\ calls[2].op = "connect" /\ calls[2].by = "watchdog"
    /\ consecutiveHelloStalls = 1
    /\ livePolls = {}
    /\ liveTimeouts = {}

WatchdogCalls ==
    {i \in DOMAIN calls : calls[i].by = "watchdog"}

\* A deadline is pending for a handshake nobody has confirmed, after k
\* deadlines have fired, and the model still lets deadlines fire.
SilentStall(k) ==
    /\ liveTimeouts /= {}
    /\ \A c \in liveTimeouts : ~sawConnected[c]
    /\ ~gw.isConnected
    /\ timeoutsFired = k
    /\ timeoutsFired < timeoutBudget

\* The watchdog's latest calls are a disconnect and then a connect.
JustReconnected ==
    /\ Len(calls) >= 2
    /\ calls[Len(calls) - 1].op = "disconnect"
    /\ calls[Len(calls) - 1].by = "watchdog"
    /\ calls[Len(calls)].op = "connect"
    /\ calls[Len(calls)].by = "watchdog"

\* C24: when a connection opens and the handle never reports isConnected,
\* with no CONNECTION-CLOSED and no end of the run in between, the deadline
\* fires in the end and the watchdog disconnects and connects the handle:
\* the stall ends with the deadline fired and the reconnect made, or else
\* with the watch cancelled or the handle connected before any deadline.
C24_SilentStallIsReconnected ==
    \A k \in 0..MaxTimeouts :
        SilentStall(k)
        ~> \/ timeoutsFired = k + 1 /\ JustReconnected
           \/ timeoutsFired = k /\ (liveTimeouts = {} \/ gw.isConnected)

C24_Witness ==
    /\ Cardinality(WatchdogCalls) = 2 * MaxTimeouts
    /\ pc = "waiting"
    /\ ~gw.isConnected
    /\ liveTimeouts = {}

----------------------------------------------------------------------------
\* Properties of the run as a whole.

\* C25: once a run has ended, no deadline timer or confirmation poll of the
\* run is live, its watchdog listener is detached, and whatever the emitter
\* delivers later the watchdog makes no connect() or disconnect() call and
\* changes nothing of the handle's resume state.
C25_NoWatchdogAfterEnd ==
    /\ [](RunEnded => (liveTimeouts = {} /\ livePolls = {} /\ ~debugListener
                       /\ helloTimeoutId = 0 /\ helloConnectedPollId = 0))
    /\ [][RunEnded => (/\ calls' = calls
                       /\ gw'.state = gw.state
                       /\ gw'.sequence = gw.sequence
                       /\ consecutiveHelloStalls' = consecutiveHelloStalls)]_vars

C25_Witness ==
    /\ RunEnded
    /\ outcome = Resolved
    /\ WatchdogCalls /= {}
    /\ gw.isConnected
    /\ consecutiveHelloStalls = 2

\* C26: the phases of a run are strictly ordered: nothing of the queue is
\* processed while the approvals start hook is pending, the wait primitive
\* is called only after the drain has finished without a terminating
\* error, and it is called at most once.
C26_PhasesInOrder ==
    /\ pc = "starting"
          => (startCalls = 1 /\ errorLog = <<>> /\ queuedErrors = <<>>
              /\ waitCalls = 0)
    /\ startCalls = (IF cfg.approvals /\ (pc /= "init") /\ (TeardownRan \/ ~RunEnded)
                     THEN 1 ELSE 0)
    /\ caught = ErrStartup => (errorLog = <<>> /\ waitCalls = 0)
    /\ waitCalls <= 1
    /\ waitCalls = 1
          => /\ FirstStopper(queuedErrors) = 0
             /\ \A i \in DOMAIN queuedErrors :
                    LogCount(queuedErrors[i].id) = 1

C26_Witness ==
    /\ cfg.approvals
    /\ pc = "waiting"
    /\ startCalls = 1
    /\ Len(queuedErrors) = 2
    /\ waitCalls = 1

\* A teardown hook has rejected.
HookRejected ==
    \E i \in DOMAIN hooks :
        hooks[i] \in {"voiceManager.destroy:rejected",
                      "execApprovalsHandler.stop:rejected"}

\* C27: a run without a gateway handle registers nothing, wires no watchdog
\* and never calls connect() or disconnect(), also on cancellation; it still
\* starts the dependent resources, drains the queue, calls the wait
\* primitive and runs the full teardown.
C27_NoHandleStillRunsFlow ==
    ~cfg.gateway
    => /\ registry = {}
       /\ ~debugListener
       /\ liveTimeouts = {} /\ livePolls = {}
       /\ calls = <<>>
       /\ gw.maxAttempts = 50
       /\ (RunEnded /\ EndingError = NoError /\ FirstStopper(queuedErrors) = 0)
             => /\ startCalls = (IF cfg.approvals THEN 1 ELSE 0)
                /\ pendingGatewayErrors = <<>>
                /\ Len(errorLog) >= Len(queuedErrors)
                /\ waitCalls = 1
                /\ outcome = Resolved
                /\ \A h \in OwedTeardownHooks : Count(hooks, h) = 1

\* What the classification of lines 162-169 and 185 makes of an error.
Verdict(e) ==
    IF ~ShouldStopOnGatewayError(e) THEN "continue"
    ELSE IF IsDisallowedIntentsError(e) THEN "succeed"
    ELSE "fail"

\* The run has processed one error and no other: e held alone in the queue,
\* or e delivered live as the first error of the wait.
OnlyQueued ==
    Len(captured) = 1 /\ Len(queuedErrors) = 1 /\ liveErrors = 0

OnlyLive ==
    captured = <<>> /\ liveErrors = 1

TheOnlyError ==
    IF OnlyQueued THEN queuedErrors[1]
    ELSE IF caught /= NoError THEN caught
    ELSE [id |-> errorLog[1].err, msg |-> errorLog[1].text]

\* The run's outcome for an error of this verdict, given what the teardown
\* hooks did.
OutcomeFor(e) ==
    IF Count(hooks, "voiceManager.destroy:rejected") = 1 THEN Rejected(ErrDestroy)
    ELSE IF Count(hooks, "execApprovalsHandler.stop:rejected") = 1 THEN Rejected(ErrStop)
    ELSE IF Verdict(e) = "fail" THEN Rejected(e)
    ELSE Resolved

\* C28: classification does not depend on arrival time: an error held alone
\* in the pending queue and the same error delivered live as the first
\* error of the wait lead to the same outcome (keep running, succeed, or
\* fail with that error) and to the same logged line.
C28_ArrivalTimeIrrelevant ==
    (OnlyQueued \/ OnlyLive)
    => LET e == TheOnlyError
       IN  /\ Len(errorLog) = 1
           /\ errorLog[1].line = LogLine(e).line
           /\ errorLog[1].text = LogLine(e).text
           /\ Verdict(e) = "continue" => (caught = NoError /\ thrown \in {NoError, ErrDestroy, ErrStop})
           /\ Verdict(e) /= "continue" => pc \notin {"starting", "waiting"}
           /\ RunEnded => outcome = OutcomeFor(e)

C28_Witness ==
    /\ OnlyLive
    /\ outcome = Rejected([id |-> 101, msg |-> MsgFatal4000])
    /\ Len(errorLog) = 1

\* C29: every event passed to handle() has its handler invoked exactly
\* once, in the end, provided every handler enqueued before it settles; no
\* event is dropped or handled twice.
C29_EveryEventHandledOnce ==
    /\ [](/\ Len(dStarted) <= Len(dCalls)
          /\ dStarted = SubSeq(dCalls, 1, Len(dStarted)))
    /\ \A n \in 1..MaxEvents :
          (Len(dCalls) >= n) ~> (Len(dStarted) >= n /\ dStarted[n] = dCalls[n])

C29_Witness ==
    /\ Len(dCalls) = 3
    /\ dStarted = dCalls
    /\ Len(dSettled) = 3
    /\ ~dSettled[2].ok

\* C30: once the cancellation signal has been observed in a run, the
\* watchdog never calls connect() on the handle for the rest of the run: no
\* connect() of the watchdog follows the disconnect() of the cancellation
\* handler.
C30_NoConnectAfterAbort ==
    \A i, j \in DOMAIN calls :
        (calls[i].by = "abort" /\ i < j)
        => ~(calls[j].by = "watchdog" /\ calls[j].op = "connect")

\* C31: once an error classified as disallowed has been passed to
\* logGatewayError, the run resolves, whichever error ends the wait.
C31_DisallowedLoggedResolves ==
    (sawDisallowedIntents /\ RunEnded) => outcome = Resolved

\* C33: between the steps of the run the stall counter is in 0..2 (the
\* callback that counts the third stall resets it before it returns), and
\* the only steps that change it are a deadline firing, a poll tick that
\* sees isConnected, and a "connection closed" line seen while isConnected.
C33_StallCounterBounded ==
    /\ [](consecutiveHelloStalls \in 0..(MAX_CONSECUTIVE_HELLO_STALLS - 1))
    /\ [][consecutiveHelloStalls' /= consecutiveHelloStalls
          => \/ \E c \in TimerIds : DeadlineStep(c)
             \/ \E c \in TimerIds : PollConfirms(c)
             \/ ClosedWhileConnected]_vars

C33_Witness ==
    /\ WatchdogConnects(FALSE) /= {}
    /\ consecutiveHelloStalls = 1
    /\ Cardinality(WatchdogConnects(TRUE)) = 3

\* C34: within one watch cycle, once isConnected has been seen true (at the
\* "connection opened" line or at a poll tick), the deadline of that cycle
\* counts no stall and calls neither disconnect() nor connect(), also when
\* isConnected is false again as it fires; it only sets the counter to 0.
C34_ConfirmedCycleNeverStalls ==
    [][\A c \in TimerIds :
        (DeadlineStep(c) /\ sawConnected[c])
        => /\ calls' = calls
           /\ gw' = gw
           /\ stallsSinceClose' = stallsSinceClose
           /\ consecutiveHelloStalls' = 0]_vars

C34_Witness ==
    /\ deadlineAfterDrop
    /\ ~gw.isConnected
    /\ timeoutsFired = 2
    /\ Len(calls) = 2
    /\ consecutiveHelloStalls = 0

\* Positions of the drain's snapshot that match the stop predicate.
StopPositions ==
    {i \in DOMAIN queuedErrors : ShouldStopOnGatewayError(queuedErrors[i])}

FirstStop ==
    CHOOSE k \in StopPositions : \A i \in StopPositions : k <= i

\* C35: the drain stops at the first queued error that matches the stop
\* predicate: the errors after it in the snapshot are neither logged nor
\* classified, and they are not put back into the caller's queue.
C35_DrainStopsAtFirstStopError ==
    StopPositions /= {}
    => /\ Len(errorLog) = FirstStop
       /\ \A i \in 1..FirstStop : errorLog[i].err = queuedErrors[i].id
       /\ sawDisallowedIntents = IsDisallowedIntentsError(queuedErrors[FirstStop])
       /\ caught \in {NoError, queuedErrors[FirstStop]}
       /\ waitCalls = 0
       /\ \A j \in DOMAIN queuedErrors :
             j > FirstStop
             => /\ LogCount(queuedErrors[j].id) = 0
                /\ \A i \in DOMAIN pendingGatewayErrors :
                      pendingGatewayErrors[i].id /= queuedErrors[j].id

C35_Witness ==
    /\ Len(queuedErrors) = 2
    /\ StopPositions /= {}
    /\ FirstStop = 1
    /\ RunEnded
    /\ ~IsDisallowedIntentsError(queuedErrors[1])
    /\ IsDisallowedIntentsError(queuedErrors[2])
    /\ outcome = Rejected(queuedErrors[1])
    /\ Len(errorLog) = 1

\* C32: the teardown of a run removes only the registry entry that this
\* run registered: an entry leaves the registry only in the step in which
\* the run that registered it ends, so the entry of a run that stays active
\* is never removed by the end of another run.
C32_TeardownRemovesOwnEntryOnly ==
    [][\A a \in Accounts :
        (gatewayRegistry[a] /= 0 /\ gatewayRegistry'[a] = 0)
        => /\ runs[gatewayRegistry[a]].phase = "active"
           /\ runs'[gatewayRegistry[a]].phase = "ended"]_vars

----------------------------------------------------------------------------
\* Properties of resolveBootstrapFilesForRun.

Lightweight ==
    bParams.contextMode = "lightweight"

Heartbeat ==
    bParams.runKind = "heartbeat"

OnlyHeartbeat(files) ==
    \A i \in DOMAIN files : files[i].name = "HEARTBEAT.md"

\* Every returned file has a path that is a non-empty, trimmed string.
PathsSanitized ==
    \A i \in DOMAIN bResult :
        /\ bResult[i].path /= Null
        /\ bResult[i].path[1] /= <<>>
        /\ Trim(bResult[i].path[1]) = bResult[i].path[1]

====
